---- MODULE Spec2Model ----
(***************************************************************************)
(* massBindingTarget: search directories for plot files, derive a binding  *)
(* target per plot, deduplicate and write the binding list (src/main.go).  *)
(*                                                                         *)
(* The file system and the external collaborators (header parsers, target  *)
(* derivation, keystore) are the environment: a directory's listing is     *)
(* chosen when ioutil.ReadDir runs, a file's header when the parser runs.  *)
(* A directory is identified by its position in the --dirs list; the same  *)
(* path given twice is the case of two positions with equal content.       *)
(***************************************************************************)
EXTENDS Integers, Sequences, FiniteSets, TLC

\* ------------------------------------------------------------------ bounds

\* most directories given with --dirs
MaxDirs == 2
\* most entries ioutil.ReadDir returns for one directory
MaxEntries == 2

\* ------------------------------------------------- program constants

\* make(chan os.Signal, 2)
ChanCap == 2
\* [A-F0-9]{66} of the native file name
HexLenV1 == 66
\* [A-F0-9]{64} of the chia file name
HexLenV2 == 64
\* poc.ProofTypeDefault, poc.ProofTypeChia
ProofTypeDefault == 0
ProofTypeChia == 1

\* ------------------------------------------------------------ file names
\* A file name is a sequence of one-character strings.

Rep(c, n) == [i \in 1..n |-> c]

Digits == {"0", "1", "2", "3", "4", "5", "6", "7", "8", "9"}
HexUpper == Digits \cup {"A", "B", "C", "D", "E", "F"}

Lower == <<"a", "b", "c", "d", "e", "f", "g", "h", "i", "j", "k", "l", "m",
           "n", "o", "p", "q", "r", "s", "t", "u", "v", "w", "x", "y", "z">>
Upper == <<"A", "B", "C", "D", "E", "F", "G", "H", "I", "J", "K", "L", "M",
           "N", "O", "P", "Q", "R", "S", "T", "U", "V", "W", "X", "Y", "Z">>

\* strings.ToUpper, one character
UpperChar(c) ==
    IF \E i \in 1..26 : Lower[i] = c
    THEN Upper[CHOOSE i \in 1..26 : Lower[i] = c]
    ELSE c

\* strings.ToUpper
ToUpper(s) == [i \in 1..Len(s) |-> UpperChar(s[i])]

\* strings.HasSuffix
HasSuffix(s, suffix) ==
    /\ Len(s) >= Len(suffix)
    /\ SubSeq(s, Len(s) - Len(suffix) + 1, Len(s)) = suffix

suffixV1 == <<".", "M", "A", "S", "S", "D", "B">>
suffixV2 == <<".", "P", "L", "O", "T">>

\* A fixed-width pattern: per position "\\d", "hex" or the literal character.
MatchFixed(s, pat) ==
    /\ Len(s) = Len(pat)
    /\ \A i \in 1..Len(pat) :
          CASE pat[i] = "\\d" -> s[i] \in Digits
            [] pat[i] = "hex" -> s[i] \in HexUpper
            [] OTHER -> s[i] = pat[i]

\* the length of the longest prefix of digits
LeadingDigits(s) ==
    CHOOSE k \in 0..Len(s) :
        /\ \A i \in 1..k : s[i] \in Digits
        /\ k = Len(s) \/ s[k + 1] \notin Digits

\* mutant: the pattern without ^, found anywhere before the end of the name
regExpV1Unanchored(s) ==
    \E i \in 0..Len(s) :
        LET t == SubSeq(s, i + 1, Len(s))
            k == LeadingDigits(t)
        IN /\ k >= 1
           /\ MatchFixed(SubSeq(t, k + 1, Len(t)),
                         <<"_">> \o Rep("hex", HexLenV1) \o <<"_", "\\d", "\\d">> \o suffixV1)

\* ^\d+_[A-F0-9]{66}_\d{2}\.MASSDB$
regExpV1(s) ==
    LET k == LeadingDigits(s) IN
    /\ k >= 1
    /\ MatchFixed(SubSeq(s, k + 1, Len(s)),
                  <<"_">> \o Rep("hex", HexLenV1) \o <<"_", "\\d", "\\d">> \o suffixV1)

\* ^PLOT-K\d{2}-\d{4}(-\d{2}){4}-[A-F0-9]{64}\.PLOT$
regExpV2(s) ==
    MatchFixed(s,
        <<"P", "L", "O", "T", "-", "K", "\\d", "\\d", "-", "\\d", "\\d", "\\d", "\\d">>
        \o <<"-", "\\d", "\\d">> \o <<"-", "\\d", "\\d">>
        \o <<"-", "\\d", "\\d">> \o <<"-", "\\d", "\\d">>
        \o <<"-">> \o Rep("hex", HexLenV2) \o suffixV2)

\* the file-name test of the native walker
matchV1(fileName) ==
    ~(~HasSuffix(ToUpper(fileName), suffixV1) \/ ~regExpV1(ToUpper(fileName)))

\* the file-name test of the chia walker
matchV2(fileName) ==
    ~(~HasSuffix(ToUpper(fileName), suffixV2) \/ ~regExpV2(ToUpper(fileName)))

\* 1_AB..(66 hex)_32.massdb
NameNative ==
    <<"1", "_">> \o Rep("A", 33) \o Rep("b", 33)
    \o <<"_", "3", "2", ".", "m", "a", "s", "s", "d", "b">>
\* plot-k32-2021-06-01-12-30-0f..(64 hex).plot
NameChia ==
    <<"p", "l", "o", "t", "-", "k", "3", "2", "-", "2", "0", "2", "1",
      "-", "0", "6", "-", "0", "1", "-", "1", "2", "-", "3", "0", "-">>
    \o Rep("0", 32) \o Rep("f", 32) \o <<".", "p", "l", "o", "t">>
NameGarbage == <<"g", "a", "r", "b", "a", "g", "e", ".", "t", "x", "t">>

\* the entries (os.FileInfo) a directory listing is drawn from
FileInfos == {"native", "chia", "garbage"}

\* parts of file names
NativeName(ordinal, hex, bits, suffix) ==
    ordinal \o <<"_">> \o hex \o <<"_">> \o bits \o suffix
ChiaName(prefix, k, date, hex, suffix) ==
    prefix \o k \o date \o <<"-">> \o hex \o suffix
Hex66 == Rep("0", 33) \o Rep("c", 33)
Hex64 == Rep("9", 32) \o Rep("e", 32)
DotMassdb == <<".", "m", "a", "s", "s", "d", "b">>
DotPlot == <<".", "p", "l", "o", "t">>
PlotK == <<"p", "l", "o", "t", "-", "k">>
Date == <<"-", "2", "0", "2", "1", "-", "0", "6", "-", "0", "1",
          "-", "1", "2", "-", "3", "0">>

\* more names fi.Name() can return: names of either format in other spellings
\* and names one step away from a format
NearNames ==
    [a_upper |-> NativeName(<<"7">>, Rep("F", 66), <<"2", "4">>, suffixV1),
     a_ord3 |-> NativeName(<<"1", "2", "3">>, Hex66, <<"3", "2">>,
                           <<".", "M", "a", "s", "s", "D", "b">>),
     a_hex65 |-> NativeName(<<"1">>, Rep("A", 65), <<"3", "2">>, DotMassdb),
     a_hex67 |-> NativeName(<<"1">>, Rep("A", 67), <<"3", "2">>, DotMassdb),
     a_nonhex |-> NativeName(<<"1">>, Rep("A", 65) \o <<"g">>, <<"3", "2">>, DotMassdb),
     a_noord |-> NativeName(<<>>, Hex66, <<"3", "2">>, DotMassdb),
     a_ordalpha |-> NativeName(<<"a">>, Hex66, <<"3", "2">>, DotMassdb),
     a_bits1 |-> NativeName(<<"1">>, Hex66, <<"3">>, DotMassdb),
     a_bits3 |-> NativeName(<<"1">>, Hex66, <<"3", "2", "0">>, DotMassdb),
     a_nobits |-> <<"1", "_">> \o Hex66 \o DotMassdb,
     a_suffix |-> NativeName(<<"1">>, Hex66, <<"3", "2">>, <<".", "m", "a", "s", "s", "d">>),
     a_nodot |-> NativeName(<<"1">>, Hex66, <<"3", "2">>, <<"m", "a", "s", "s", "d", "b">>),
     a_trailing |-> NativeName(<<"1">>, Hex66, <<"3", "2">>, DotMassdb \o <<".", "b", "a", "k">>),
     a_leading |-> <<"x">> \o NativeName(<<"1">>, Hex66, <<"3", "2">>, DotMassdb),
     a_dashes |-> <<"1", "-">> \o Hex66 \o <<"-", "3", "2">> \o DotMassdb,
     b_upper |-> ChiaName(<<"P", "L", "O", "T", "-", "K">>, <<"3", "3">>, Date,
                          Rep("A", 64), suffixV2),
     b_hex63 |-> ChiaName(PlotK, <<"3", "2">>, Date, Rep("a", 63), DotPlot),
     b_hex65 |-> ChiaName(PlotK, <<"3", "2">>, Date, Rep("a", 65), DotPlot),
     b_nonhex |-> ChiaName(PlotK, <<"3", "2">>, Date, Rep("a", 63) \o <<"x">>, DotPlot),
     b_k1 |-> ChiaName(PlotK, <<"3">>, Date, Hex64, DotPlot),
     b_k3 |-> ChiaName(PlotK, <<"1", "0", "0">>, Date, Hex64, DotPlot),
     b_seg3 |-> ChiaName(PlotK, <<"3", "2">>, SubSeq(Date, 1, 14), Hex64, DotPlot),
     b_seg5 |-> ChiaName(PlotK, <<"3", "2">>, Date \o <<"-", "5", "9">>, Hex64, DotPlot),
     b_year2 |-> ChiaName(PlotK, <<"3", "2">>, <<"-">> \o SubSeq(Date, 4, 17), Hex64, DotPlot),
     b_suffix |-> ChiaName(PlotK, <<"3", "2">>, Date, Hex64, <<".", "p", "l", "o">>),
     b_trailing |-> ChiaName(PlotK, <<"3", "2">>, Date, Hex64, DotPlot \o <<".", "t", "m", "p">>),
     b_leading |-> <<"x">> \o ChiaName(PlotK, <<"3", "2">>, Date, Hex64, DotPlot),
     b_noprefix |-> ChiaName(<<"k">>, <<"3", "2">>, Date, Hex64, DotPlot)]

\* the entries with these names
NearFileInfos == DOMAIN NearNames

\* fi.Name()
Name(f) ==
    CASE f = "native" -> NameNative
      [] f = "chia" -> NameChia
      [] f = "garbage" -> NameGarbage
      [] OTHER -> NearNames[f]

\* the entries the native walker's file-name test accepts
MatchingV1 == {f \in FileInfos \cup NearFileInfos : matchV1(Name(f))}
\* the entries the chia walker's file-name test accepts
MatchingV2 == {f \in FileInfos \cup NearFileInfos : matchV2(Name(f))}


\* -------------------------------------------------------- the environment

SeqsUpTo(S, n) == UNION {[1..k -> S] : k \in 0..n}

\* what ioutil.ReadDir can return for a directory that can be read
Listings == SeqsUpTo(FileInfos, MaxEntries)
\* and what it can return for a directory that holds one entry of any name
NameListings == {<<f>> : f \in FileInfos \cup NearFileInfos}

\* headers massutil.NewMassDBInfoV1FromFile can return: two files with valid
\* bit lengths and one whose bit length no binding target exists for, each
\* plotted or not
InfosV1 ==
    {[PublicKey |-> k[1], BitLength |-> k[2], Plotted |-> p] :
        k \in {<<1, 32>>, <<2, 24>>, <<1, 0>>}, p \in BOOLEAN}

\* headers massutil.NewMassDBInfoV2FromFile can return: the same three plots
\* with keys the keystore file holds, and the first with a key or both missing
InfosV2 ==
    {[PlotID |-> k[1], K |-> k[2], PoolPublicKey |-> 1, FarmerPublicKey |-> 1] :
        k \in {<<1, 32>>, <<2, 33>>, <<1, 0>>}}
    \cup {[PlotID |-> 1, K |-> 32, PoolPublicKey |-> k[1], FarmerPublicKey |-> k[2]] :
        k \in {<<1, 2>>, <<2, 1>>, <<2, 2>>}}

\* no header parsed
NoInfo == [none |-> TRUE]
\* no entry at hand
NoFile == "-"

\* the keys of the keystore file that loads
KeystoreContent == [pool |-> {1}, farmer |-> {1}]
\* var keystore *chiawallet.Keystore (nil)
NilKeystore == [nil |-> TRUE]

\* the sizes a binding target exists for
ValidSizes == {24, 32, 33}

\* uint8(x)
Uint8(x) == x % 256

\* massutil.GetMassDBBindingTarget: the error result
TargetErrV1(publicKey, bitLength) == bitLength \notin ValidSizes
\* massutil.GetMassDBBindingTarget: the target, a function of key and bit length
GetMassDBBindingTarget(publicKey, bitLength) == <<"massdb", publicKey, bitLength>>

\* massutil.GetChiaPlotBindingTarget: the error result
TargetErrV2(plotID, k) == k \notin ValidSizes
\* massutil.GetChiaPlotBindingTarget: the target, a function of plot id and k
GetChiaPlotBindingTarget(plotID, k) == <<"chia", plotID, k>>

\* keystore.GetPoolPrivateKey(pk) returns no error
HasPoolKey(ks, pk) == pk \in ks.pool
\* keystore.GetFarmerPrivateKey(pk) returns no error
HasFarmerKey(ks, pk) == pk \in ks.farmer

\* --------------------------------------------------------- binding list

NilList == [nil |-> TRUE]

BindingPlot(target, type, size) == [Target |-> target, Type |-> type, Size |-> size]

RECURSIVE DedupFrom(_, _, _)
\* the plots of s from position i on whose target is not in seen, first-seen order
DedupFrom(s, i, seen) ==
    IF i > Len(s) THEN <<>>
    ELSE IF s[i].Target \in seen THEN DedupFrom(s, i + 1, seen)
    ELSE <<s[i]>> \o DedupFrom(s, i + 1, seen \cup {s[i].Target})

\* mutant: of the plots with one target the last is kept
RemoveDuplicateKeepLast(l) ==
    LET rev(s) == [i \in 1..Len(s) |-> s[Len(s) + 1 - i]]
        kept == rev(DedupFrom(rev(l.Plots), 1, {}))
    IN [Plots |-> kept, TotalCount |-> Len(kept),
        DefaultCount |-> l.DefaultCount, ChiaCount |-> l.ChiaCount]

\* massutil.BindingList.RemoveDuplicate: later plots with an earlier plot's
\* target are removed, TotalCount is the new length, the per-format counts
\* are passed through
RemoveDuplicate(l) ==
    LET kept == DedupFrom(l.Plots, 1, {}) IN
    [Plots |-> kept, TotalCount |-> Len(kept),
     DefaultCount |-> l.DefaultCount, ChiaCount |-> l.ChiaCount]

\* ----------------------------------------------------------------- state

VARIABLES
    arg,               \* the <export_filename> argument and what os.Stat finds there
    flagOverwrite,     \* getBindingListFlagOverwrite
    flagListAll,       \* getBindingListFlagListAll
    flagKeystore,      \* getBindingListFlagKeystore: "", "ks" (loads), "bad" (does not)
    flagPlotType,      \* getBindingListFlagPlotType
    flagDirectories,   \* len(getBindingListFlagDirectories)
    pc,                \* where the process is
    interruptCh,       \* number of signals buffered in interruptCh
    keystore,          \* the keystore of getOfflineBindingListV2
    dbDir,             \* position of the directory being walked
    dirFileInfos,      \* the entries of that directory the range loop has not reached
    fi,                \* the entry the range loop is at
    info,              \* the header parsed for that entry
    plots,             \* the walker's plots
    dirSearched,       \* the walker's count for the directory
    totalSearched,     \* the walker's count for all directories
    list,              \* the binding list of main
    file,              \* the content at the output path
    status,            \* exit status: -1 running, 0, 1 (log.Fatal), 2 (killed by the signal)
    stdout,            \* what main printed
    err,               \* the error main returned
    log,               \* the last message of logging.CPrint
    failedDir,         \* history: position of the directory ioutil.ReadDir failed on, 0 if none
    passed,            \* history: the plots appended, in order, never discarded
    writes,            \* history: calls of ioutil.WriteFile
    sigInWalk,         \* history: a signal arrived while directories were walked
    polledAfterSig     \* history: the select ran after such a signal

flags == <<arg, flagOverwrite, flagListAll, flagKeystore, flagPlotType, flagDirectories>>
walk == <<dbDir, dirFileInfos, fi, info, plots, dirSearched, totalSearched>>
outcome == <<list, file, status, stdout, err, writes>>
history == <<log, failedDir, passed, sigInWalk, polledAfterSig>>
vars == <<flags, pc, interruptCh, keystore, walk, outcome, history>>

ArgStates == {"none", "badpath", "dir", "file", "absent", "staterr"}
PlotTypes == {"m1", "m2", ""}
KeystoreFlags == {"", "ks", "bad"}

\* the content at the output path before the run
FileBefore(a) ==
    CASE a = "file" -> [kind |-> "old"]
      [] a = "dir" -> [kind |-> "dir"]
      [] a = "staterr" -> [kind |-> "unknown"]
      [] OTHER -> [kind |-> "absent"]

Init ==
    /\ arg \in ArgStates
    /\ flagOverwrite \in BOOLEAN
    /\ flagListAll \in BOOLEAN
    /\ flagPlotType \in PlotTypes
    \* only the chia walker reads --keystore
    /\ flagKeystore \in IF flagPlotType = "m2" THEN KeystoreFlags ELSE {""}
    /\ flagDirectories \in 0..MaxDirs
    /\ pc = "Action"
    /\ interruptCh = 0
    /\ keystore = NilKeystore
    /\ dbDir = 0
    /\ dirFileInfos = <<>>
    /\ fi = NoFile
    /\ info = NoInfo
    /\ plots = <<>>
    /\ dirSearched = 0
    /\ totalSearched = 0
    /\ list = NilList
    /\ file = FileBefore(arg)
    /\ status = -1
    /\ stdout = ""
    /\ err = "nil"
    /\ log = ""
    /\ failedDir = 0
    /\ passed = <<>>
    /\ writes = 0
    /\ sigInWalk = FALSE
    /\ polledAfterSig = FALSE


\* ------------------------------------------------------------- main

\* os.Stat(abs): the error
StatErr(a) ==
    CASE a \in {"file", "dir"} -> "nil"
      [] a = "absent" -> "ENOENT"
      [] OTHER -> "EACCES"
\* fi.IsDir()
IsDir(a) == a = "dir"
\* os.IsNotExist(err)
IsNotExist(e) == e = "ENOENT"

\* main: the Action returned e after it logged lg and printed out;
\* log.Fatal(err) when e is not nil
Returned(e, lg, out) ==
    /\ pc' = "exit"
    /\ err' = e
    /\ status' = IF e = "nil" THEN 0 ELSE 1
    /\ log' = lg
    /\ stdout' = out

LogWrongFilename == "wrong filename format"
LogIsDirectory == "filename is a directory"
LogCannotOverwrite == "cannot overwrite existed file, try again with --overwrite"
LogFailGetList == "fail to get binding list"
LogFailWrite == "fail to write into binding list file"
LogSearching == "searching for plot files from disk"
LogCancel == "cancel searching plot files"
\* the walkers' messages, t the plot type
LogDir(t) ==
    IF t = "m1" THEN "searching for native MassDB files"
    ELSE "searching for chia plot files"
LogFailRead(t) ==
    IF t = "m1" THEN "fail to read native massdb info"
    ELSE "fail to read chia plot info"
LogLoadedDir(t) ==
    IF t = "m1" THEN "loaded native MassDB files from directory"
    ELSE "loaded chia plot files from directory"
LogLoadedAll(t) ==
    IF t = "m1" THEN "loaded native MassDB files from all directories"
    ELSE "loaded chia plot files from all directories"

\* the walker's locals after it returned or left a directory
WalkReset ==
    /\ dirFileInfos' = <<>>
    /\ fi' = NoFile
    /\ info' = NoInfo
    /\ dirSearched' = 0

\* mutant: with --overwrite the file at the output path is emptied before the scan
PrepareTruncate ==
    /\ pc = "Action"
    /\ IF arg = "none" THEN Returned("nil", log, "help") /\ UNCHANGED file
       ELSE IF arg = "badpath" THEN Returned("abs", LogWrongFilename, "") /\ UNCHANGED file
       ELSE IF StatErr(arg) = "nil" /\ IsDir(arg)
       THEN Returned(StatErr(arg), LogIsDirectory, "") /\ UNCHANGED file
       ELSE IF ~IsNotExist(StatErr(arg)) /\ ~flagOverwrite
       THEN Returned(StatErr(arg), LogCannotOverwrite, "") /\ UNCHANGED file
       ELSE /\ pc' = "getOfflineBindingList"
            /\ file' = IF arg = "file" THEN [kind |-> "truncated"] ELSE file
            /\ UNCHANGED <<err, status, stdout, log>>
    /\ UNCHANGED <<flags, interruptCh, keystore, walk, list, writes,
                   failedDir, passed, sigInWalk, polledAfterSig>>

\* Action, up to the call of getOfflineBindingList
Prepare ==
    /\ pc = "Action"
    /\ IF arg = "none" THEN Returned("nil", log, "help")
       ELSE IF arg = "badpath" THEN Returned("abs", LogWrongFilename, "")
       ELSE IF StatErr(arg) = "nil" /\ IsDir(arg)
       THEN Returned(StatErr(arg), LogIsDirectory, "")
       ELSE IF ~IsNotExist(StatErr(arg)) /\ ~flagOverwrite
       THEN Returned(StatErr(arg), LogCannotOverwrite, "")
       ELSE /\ pc' = "getOfflineBindingList"
            /\ UNCHANGED <<err, status, stdout, log>>
    /\ UNCHANGED <<flags, interruptCh, keystore, walk, list, file, writes,
                   failedDir, passed, sigInWalk, polledAfterSig>>

\* mutant: a plot type that is neither m1 nor m2 does not end the run
StartLenient ==
    /\ pc = "getOfflineBindingList"
    /\ IF flagPlotType = "m2" /\ flagKeystore = "bad"
       THEN /\ Returned("keystore", LogFailGetList, "")
            /\ UNCHANGED <<keystore, dbDir>>
       ELSE /\ keystore' = IF flagPlotType = "m2" /\ flagKeystore # ""
                           THEN KeystoreContent ELSE NilKeystore
            /\ dbDir' = 1
            /\ pc' = "ReadDir"
            /\ log' = LogSearching
            /\ UNCHANGED <<err, status, stdout>>
    /\ UNCHANGED <<flags, interruptCh, dirFileInfos, fi, info, plots,
                   dirSearched, totalSearched, list, file, writes, failedDir, passed,
                   sigInWalk, polledAfterSig>>

\* mutant: a keystore that does not load is taken as no keystore
StartKeystoreFallback ==
    /\ pc = "getOfflineBindingList"
    /\ IF flagPlotType \notin {"m1", "m2"}
       THEN /\ Returned("invalid --type flag", LogFailGetList, "")
            /\ UNCHANGED <<keystore, dbDir>>
       ELSE /\ keystore' = IF flagPlotType = "m2" /\ flagKeystore = "ks"
                           THEN KeystoreContent ELSE NilKeystore
            /\ dbDir' = 1
            /\ pc' = "ReadDir"
            /\ log' = LogSearching
            /\ UNCHANGED <<err, status, stdout>>
    /\ UNCHANGED <<flags, interruptCh, dirFileInfos, fi, info, plots,
                   dirSearched, totalSearched, list, file, writes, failedDir, passed,
                   sigInWalk, polledAfterSig>>

\* getOfflineBindingList, up to the first directory of the walker: the signal
\* is notified, the plot type selects the walker, the chia walker loads the keystore
Start ==
    /\ pc = "getOfflineBindingList"
    /\ IF flagPlotType \notin {"m1", "m2"}
       THEN /\ Returned("invalid --type flag", LogFailGetList, "")
            /\ UNCHANGED <<keystore, dbDir>>
       ELSE IF flagPlotType = "m2" /\ flagKeystore = "bad"
       THEN /\ Returned("keystore", LogFailGetList, "")
            /\ UNCHANGED <<keystore, dbDir>>
       ELSE /\ keystore' = IF flagPlotType = "m2" /\ flagKeystore # ""
                           THEN KeystoreContent ELSE NilKeystore
            /\ dbDir' = 1
            /\ pc' = "ReadDir"
            /\ log' = LogSearching
            /\ UNCHANGED <<err, status, stdout>>
    /\ UNCHANGED <<flags, interruptCh, dirFileInfos, fi, info, plots,
                   dirSearched, totalSearched, list, file, writes, failedDir, passed,
                   sigInWalk, polledAfterSig>>

\* mutant: the number of plots is counted for both formats
BuildListBothCounts(ps) ==
    [Plots |-> ps, TotalCount |-> Len(ps),
     DefaultCount |-> Len(ps), ChiaCount |-> Len(ps)]

\* getOfflineBindingList after the walker returned plots and no error
BuildList(ps) ==
    LET defaultCount == IF flagPlotType = "m1" THEN Len(ps) ELSE 0
        chiaCount == IF flagPlotType = "m2" THEN Len(ps) ELSE 0
    IN [Plots |-> ps, TotalCount |-> defaultCount + chiaCount,
        DefaultCount |-> defaultCount, ChiaCount |-> chiaCount]

\* ----------------------------------------------------------- the walkers

\* mutant: a directory that cannot be listed ends the walk with the plots so far
ReadDirFailPartial ==
    /\ pc = "ReadDir"
    /\ dbDir <= flagDirectories
    /\ failedDir' = dbDir
    /\ list' = BuildList(plots)
    /\ pc' = "RemoveDuplicate"
    /\ log' = LogLoadedAll(flagPlotType)
    /\ UNCHANGED <<flags, interruptCh, keystore, walk, file, status, stdout, err,
                   writes, passed, sigInWalk, polledAfterSig>>

\* ioutil.ReadDir returned an error
ReadDirFail ==
    /\ pc = "ReadDir"
    /\ dbDir <= flagDirectories
    /\ Returned("readdir", LogFailGetList, "")
    /\ failedDir' = dbDir
    /\ plots' = <<>>
    /\ UNCHANGED <<flags, interruptCh, keystore, dbDir, dirFileInfos, fi, info,
                   dirSearched, totalSearched, list, file, writes, passed, sigInWalk,
                   polledAfterSig>>

\* ioutil.ReadDir returned a listing of ls; a directory without entries is left
\* at once
ReadDirFrom(ls) ==
    /\ pc = "ReadDir"
    /\ dbDir <= flagDirectories
    /\ \E l \in ls :
          IF l = <<>>
          THEN /\ dbDir' = dbDir + 1
               /\ log' = LogLoadedDir(flagPlotType)
               /\ UNCHANGED <<pc, dirFileInfos, fi>>
          ELSE /\ fi' = Head(l)
               /\ dirFileInfos' = Tail(l)
               /\ pc' = "select"
               /\ log' = LogDir(flagPlotType)
               /\ UNCHANGED dbDir
    /\ UNCHANGED <<flags, interruptCh, keystore, info, plots, dirSearched,
                   totalSearched, outcome, failedDir, passed, sigInWalk, polledAfterSig>>

\* ioutil.ReadDir returned the listing
ReadDir == ReadDirFrom(Listings)

\* ioutil.ReadDir returned the listing of a directory of one entry of any name
ReadDirNames == ReadDirFrom(NameListings)

\* mutant: the directory's count is not added to the total
NextEntryNoTotal(searched, lg) ==
    IF dirFileInfos # <<>>
    THEN /\ fi' = Head(dirFileInfos)
         /\ dirFileInfos' = Tail(dirFileInfos)
         /\ pc' = "select"
         /\ info' = NoInfo
         /\ dirSearched' = searched
         /\ log' = lg
         /\ UNCHANGED <<dbDir, totalSearched>>
    ELSE /\ pc' = "ReadDir"
         /\ dbDir' = dbDir + 1
         /\ UNCHANGED totalSearched
         /\ log' = LogLoadedDir(flagPlotType)
         /\ WalkReset

\* the range loop goes on after an entry that left the directory's count at
\* searched and the log at lg: the next entry, or the next directory
NextEntry(searched, lg) ==
    IF dirFileInfos # <<>>
    THEN /\ fi' = Head(dirFileInfos)
         /\ dirFileInfos' = Tail(dirFileInfos)
         /\ pc' = "select"
         /\ info' = NoInfo
         /\ dirSearched' = searched
         /\ log' = lg
         /\ UNCHANGED <<dbDir, totalSearched>>
    ELSE /\ pc' = "ReadDir"
         /\ dbDir' = dbDir + 1
         /\ totalSearched' = totalSearched + searched
         /\ log' = LogLoadedDir(flagPlotType)
         /\ WalkReset

\* mutant: on the signal the walker returns the plots it has
SelectInterruptPartial ==
    /\ pc = "select"
    /\ interruptCh > 0
    /\ interruptCh' = interruptCh - 1
    /\ log' = LogCancel
    /\ polledAfterSig' = (polledAfterSig \/ sigInWalk)
    /\ list' = BuildList(plots)
    /\ pc' = "RemoveDuplicate"
    /\ WalkReset
    /\ UNCHANGED <<flags, keystore, dbDir, plots, totalSearched, file, status,
                   stdout, err, writes, failedDir, passed, sigInWalk>>

\* mutant: on the signal the walker returns an error
SelectInterruptError ==
    /\ pc = "select"
    /\ interruptCh > 0
    /\ interruptCh' = interruptCh - 1
    /\ polledAfterSig' = (polledAfterSig \/ sigInWalk)
    /\ plots' = <<>>
    /\ Returned("cancelled", LogFailGetList, "")
    /\ WalkReset
    /\ UNCHANGED <<flags, keystore, dbDir, totalSearched, list, file, writes,
                   failedDir, passed, sigInWalk>>

\* select: a signal is buffered, the walker returns nil, nil and
\* getOfflineBindingList returns the list of no plots
SelectInterrupt ==
    /\ pc = "select"
    /\ interruptCh > 0
    /\ interruptCh' = interruptCh - 1
    /\ log' = LogCancel
    /\ polledAfterSig' = (polledAfterSig \/ sigInWalk)
    /\ plots' = <<>>
    /\ list' = BuildList(<<>>)
    /\ pc' = "RemoveDuplicate"
    /\ WalkReset
    /\ UNCHANGED <<flags, keystore, dbDir, totalSearched, file, status,
                   stdout, err, writes, failedDir, passed, sigInWalk>>

\* mutant: the default case is taken whether or not a signal is buffered
SelectDefaultAlways ==
    /\ pc = "select"
    /\ pc' = "process"
    /\ polledAfterSig' = (polledAfterSig \/ sigInWalk)
    /\ UNCHANGED <<flags, interruptCh, keystore, walk, outcome, log,
                   failedDir, passed, sigInWalk>>

\* mutant: the select has no default case, the walker waits for a signal
SelectNoDefault == SelectInterrupt

\* select: no signal is buffered, the default case
SelectDefault ==
    /\ pc = "select"
    /\ ~(interruptCh > 0)
    /\ pc' = "process"
    /\ polledAfterSig' = (polledAfterSig \/ sigInWalk)
    /\ UNCHANGED <<flags, interruptCh, keystore, walk, outcome, log,
                   failedDir, passed, sigInWalk>>

\* every directory is walked: the walker returns its plots,
\* getOfflineBindingList the list
WalkReturn ==
    /\ pc = "ReadDir"
    /\ dbDir > flagDirectories
    /\ list' = BuildList(plots)
    /\ pc' = "RemoveDuplicate"
    /\ log' = LogLoadedAll(flagPlotType)
    /\ UNCHANGED <<flags, interruptCh, keystore, walk, file, status, stdout, err,
                   writes, failedDir, passed, sigInWalk, polledAfterSig>>

\* what the rest of a step on an entry leaves alone
EntryFrame ==
    UNCHANGED <<flags, interruptCh, keystore, outcome, failedDir, sigInWalk,
                polledAfterSig>>

\* native walker: the name does not match
V1NoMatch ==
    /\ pc = "process" /\ flagPlotType = "m1"
    /\ ~fi \in MatchingV1
    /\ NextEntry(dirSearched, log)
    /\ UNCHANGED <<plots, passed>>
    /\ EntryFrame

\* mutant: a header that cannot be parsed ends the walk with the error
V1ParseFailFatal ==
    /\ pc = "process" /\ flagPlotType = "m1"
    /\ fi \in MatchingV1
    /\ Returned("parse", LogFailGetList, "")
    /\ plots' = <<>>
    /\ UNCHANGED <<flags, interruptCh, keystore, dbDir, dirFileInfos, fi, info,
                   dirSearched, totalSearched, list, file, writes, failedDir, passed,
                   sigInWalk, polledAfterSig>>

\* native walker: massutil.NewMassDBInfoV1FromFile returned an error
V1ParseFail ==
    /\ pc = "process" /\ flagPlotType = "m1"
    /\ fi \in MatchingV1
    /\ NextEntry(dirSearched, LogFailRead(flagPlotType))
    /\ UNCHANGED <<plots, passed>>
    /\ EntryFrame

\* native walker: massutil.NewMassDBInfoV1FromFile returned the header
V1Parse ==
    /\ pc = "process" /\ flagPlotType = "m1"
    /\ fi \in MatchingV1
    /\ \E i \in InfosV1 : info' = i
    /\ pc' = "extract"
    /\ UNCHANGED <<dbDir, dirFileInfos, fi, plots, dirSearched, totalSearched, passed, log>>
    /\ EntryFrame

\* mutant: --all is not looked at
SkipV1NotPlotted(i, all) == ~i.Plotted

\* native walker: the test that leaves a file out
SkipV1(i, all) == ~i.Plotted /\ ~all

\* native walker: the plot of a header
PlotV1(i) ==
    BindingPlot(GetMassDBBindingTarget(i.PublicKey, i.BitLength),
                Uint8(ProofTypeDefault), Uint8(i.BitLength))

\* native walker: the file is not plotted and --all is not set
V1Skip ==
    /\ pc = "extract" /\ flagPlotType = "m1"
    /\ SkipV1(info, flagListAll)
    /\ NextEntry(dirSearched, log)
    /\ UNCHANGED <<plots, passed>>
    /\ EntryFrame

\* native walker: massutil.GetMassDBBindingTarget returned an error
V1TargetFail ==
    /\ pc = "extract" /\ flagPlotType = "m1"
    /\ ~SkipV1(info, flagListAll)
    /\ TargetErrV1(info.PublicKey, info.BitLength)
    /\ Returned("target", LogFailGetList, "")
    /\ plots' = <<>>
    /\ UNCHANGED <<flags, interruptCh, keystore, dbDir, dirFileInfos, fi, info,
                   dirSearched, totalSearched, list, file, writes, failedDir, passed,
                   sigInWalk, polledAfterSig>>

\* native walker: the plot is appended
V1Append ==
    /\ pc = "extract" /\ flagPlotType = "m1"
    /\ ~SkipV1(info, flagListAll)
    /\ ~TargetErrV1(info.PublicKey, info.BitLength)
    /\ plots' = Append(plots, PlotV1(info))
    /\ passed' = Append(passed, PlotV1(info))
    /\ NextEntry(dirSearched + 1, log)
    /\ EntryFrame

\* chia walker: the name does not match
V2NoMatch ==
    /\ pc = "process" /\ flagPlotType = "m2"
    /\ ~fi \in MatchingV2
    /\ NextEntry(dirSearched, log)
    /\ UNCHANGED <<plots, passed>>
    /\ EntryFrame

\* chia walker: massutil.NewMassDBInfoV2FromFile returned an error
V2ParseFail ==
    /\ pc = "process" /\ flagPlotType = "m2"
    /\ fi \in MatchingV2
    /\ NextEntry(dirSearched, LogFailRead(flagPlotType))
    /\ UNCHANGED <<plots, passed>>
    /\ EntryFrame

\* chia walker: massutil.NewMassDBInfoV2FromFile returned the header
V2Parse ==
    /\ pc = "process" /\ flagPlotType = "m2"
    /\ fi \in MatchingV2
    /\ \E i \in InfosV2 : info' = i
    /\ pc' = "extract"
    /\ UNCHANGED <<dbDir, dirFileInfos, fi, plots, dirSearched, totalSearched, passed, log>>
    /\ EntryFrame

\* mutant: the farmer key is not looked up
ownablePlotPoolOnly(ks, i) ==
    IF ks = NilKeystore THEN TRUE
    ELSE IF ~HasPoolKey(ks, i.PoolPublicKey) THEN FALSE
    ELSE TRUE

\* chia walker: the keystore, if any, holds the pool and the farmer private key
ownablePlot(ks, i) ==
    IF ks = NilKeystore THEN TRUE
    ELSE IF ~HasPoolKey(ks, i.PoolPublicKey) THEN FALSE
    ELSE IF ~HasFarmerKey(ks, i.FarmerPublicKey) THEN FALSE
    ELSE TRUE

\* chia walker: the plot of a header
PlotV2(i) ==
    BindingPlot(GetChiaPlotBindingTarget(i.PlotID, i.K),
                Uint8(ProofTypeChia), Uint8(i.K))

\* chia walker: the plot is not ownable
V2Skip ==
    /\ pc = "extract" /\ flagPlotType = "m2"
    /\ ~ownablePlot(keystore, info)
    /\ NextEntry(dirSearched, log)
    /\ UNCHANGED <<plots, passed>>
    /\ EntryFrame

\* mutant: a file without binding target is left out and the walk goes on
V2TargetFailSkip ==
    /\ pc = "extract" /\ flagPlotType = "m2"
    /\ ownablePlot(keystore, info)
    /\ TargetErrV2(info.PlotID, info.K)
    /\ NextEntry(dirSearched, log)
    /\ UNCHANGED <<plots, passed>>
    /\ EntryFrame

\* chia walker: massutil.GetChiaPlotBindingTarget returned an error
V2TargetFail ==
    /\ pc = "extract" /\ flagPlotType = "m2"
    /\ ownablePlot(keystore, info)
    /\ TargetErrV2(info.PlotID, info.K)
    /\ Returned("target", LogFailGetList, "")
    /\ plots' = <<>>
    /\ UNCHANGED <<flags, interruptCh, keystore, dbDir, dirFileInfos, fi, info,
                   dirSearched, totalSearched, list, file, writes, failedDir, passed,
                   sigInWalk, polledAfterSig>>

\* chia walker: the plot is appended
V2Append ==
    /\ pc = "extract" /\ flagPlotType = "m2"
    /\ ownablePlot(keystore, info)
    /\ ~TargetErrV2(info.PlotID, info.K)
    /\ plots' = Append(plots, PlotV2(info))
    /\ passed' = Append(passed, PlotV2(info))
    /\ NextEntry(dirSearched + 1, log)
    /\ EntryFrame

\* ------------------------------------------------------- main, the end

\* mutant: a list without plots is written like any other
SaveNothingWritesEmpty ==
    /\ pc = "RemoveDuplicate"
    /\ list' = RemoveDuplicate(list)
    /\ Len(list'.Plots) = 0
    /\ writes' = writes + 1
    /\ file' = [kind |-> "list", data |-> list']
    /\ Returned("nil", log, "collected")
    /\ UNCHANGED <<flags, interruptCh, keystore, walk, failedDir, passed,
                   sigInWalk, polledAfterSig>>

\* Action: the list without duplicates holds no plot
SaveNothing ==
    /\ pc = "RemoveDuplicate"
    /\ list' = RemoveDuplicate(list)
    /\ Len(list'.Plots) = 0
    /\ Returned("nil", log, "saved nothing in the binding list")
    /\ UNCHANGED <<flags, interruptCh, keystore, walk, file, writes,
                   failedDir, passed, sigInWalk, polledAfterSig>>

\* Action: the list is marshalled and ioutil.WriteFile writes it
SaveWrite ==
    /\ pc = "RemoveDuplicate"
    /\ list' = RemoveDuplicate(list)
    /\ ~(Len(list'.Plots) = 0)
    /\ writes' = writes + 1
    /\ file' = [kind |-> "list", data |-> list']
    /\ Returned("nil", log, "collected")
    /\ UNCHANGED <<flags, interruptCh, keystore, walk, failedDir, passed,
                   sigInWalk, polledAfterSig>>

\* Action: ioutil.WriteFile returned an error, before or after it truncated the file
SaveWriteFail ==
    /\ pc = "RemoveDuplicate"
    /\ list' = RemoveDuplicate(list)
    /\ ~(Len(list'.Plots) = 0)
    /\ writes' = writes + 1
    /\ file' \in {file, [kind |-> "truncated"]}
    /\ Returned("write", LogFailWrite, "")
    /\ UNCHANGED <<flags, interruptCh, keystore, walk, failedDir, passed,
                   sigInWalk, polledAfterSig>>

\* --------------------------------------------------------- the signal

\* the walker is in a directory or has one to go to
Walking ==
    \/ pc \in {"select", "process", "extract"}
    \/ pc = "ReadDir" /\ dbDir <= flagDirectories

\* SIGINT or SIGTERM before signal.Notify: the process is killed
SignalKill ==
    /\ pc \in {"Action", "getOfflineBindingList"}
    /\ pc' = "exit"
    /\ status' = 2
    /\ UNCHANGED <<flags, interruptCh, keystore, walk, list, file, stdout, err, writes,
                   history>>

\* mutant: a signal that arrives while an entry is worked on ends the walk at once
SignalPreempt ==
    /\ pc \notin {"Action", "getOfflineBindingList", "exit"}
    /\ interruptCh < ChanCap
    /\ sigInWalk' = (sigInWalk \/ Walking)
    /\ IF pc \in {"process", "extract"}
       THEN /\ log' = LogCancel
            /\ plots' = <<>>
            /\ list' = BuildList(<<>>)
            /\ pc' = "RemoveDuplicate"
            /\ WalkReset
            /\ UNCHANGED <<interruptCh, dbDir, totalSearched>>
       ELSE /\ interruptCh' = interruptCh + 1
            /\ UNCHANGED <<pc, walk, list, log>>
    /\ UNCHANGED <<flags, keystore, file, status, stdout, err, writes, failedDir,
                   passed, polledAfterSig>>

\* SIGINT or SIGTERM after signal.Notify: buffered in interruptCh if there is room
SignalNotify ==
    /\ pc \notin {"Action", "getOfflineBindingList", "exit"}
    /\ interruptCh < ChanCap
    /\ interruptCh' = interruptCh + 1
    /\ sigInWalk' = (sigInWalk \/ Walking)
    /\ UNCHANGED <<flags, pc, keystore, walk, outcome, log, failedDir, passed,
                   polledAfterSig>>

\* the steps of the program but for the listing of a directory
ProgramSteps ==
    \/ Prepare
    \/ Start
    \/ ReadDirFail
    \/ SelectInterrupt
    \/ SelectDefault
    \/ WalkReturn
    \/ V1NoMatch
    \/ V1ParseFail
    \/ V1Parse
    \/ V1Skip
    \/ V1TargetFail
    \/ V1Append
    \/ V2NoMatch
    \/ V2ParseFail
    \/ V2Parse
    \/ V2Skip
    \/ V2TargetFail
    \/ V2Append
    \/ SaveNothing
    \/ SaveWrite
    \/ SaveWriteFail

\* the steps of the environment: a signal is sent to the process
Signals ==
    \/ SignalKill
    \/ SignalNotify

Steps ==
    \/ ProgramSteps
    \/ Signals

Next ==
    \/ ReadDir
    \/ Steps

Spec == Init /\ [][Next]_vars

\* the process is scheduled: a step of the program that stays possible is taken
FairSpec == Spec /\ WF_vars(ReadDir \/ ProgramSteps)

\* the program over directories of one entry each, of any name
NextNames ==
    \/ ReadDirNames
    \/ Steps

SpecNames == Init /\ [][NextNames]_vars


\* ================================================================ claims

Range(s) == {s[i] : i \in 1..Len(s)}
NoDuplicateTarget(s) ==
    \A i, j \in 1..Len(s) : s[i].Target = s[j].Target => i = j
\* the walker saw the signal
Cancelled == log = LogCancel
\* the name of the entry at hand passes the walker's file-name test
Matched ==
    \/ flagPlotType = "m1" /\ fi \in MatchingV1
    \/ flagPlotType = "m2" /\ fi \in MatchingV2
\* the inclusion rules as the claims state them
IncludedV1 == info.Plotted \/ flagListAll
OwnedV2 ==
    \/ flagKeystore = ""
    \/ /\ info.PoolPublicKey \in KeystoreContent.pool
       /\ info.FarmerPublicKey \in KeystoreContent.farmer
\* the step that ends the work on a parsed header
ExtractStep(t) == pc = "extract" /\ flagPlotType = t /\ pc' # "extract"

\* C1: the output file is written at most once, only after every directory
\* was walked to its end with no fatal error and no observed cancellation, and
\* then it holds the plots of all files that passed, without duplicate targets;
\* in every other run the content at the output path is what it was.
C1_WrittenOnceAfterFullScan ==
    /\ writes <= 1
    /\ writes = 1 =>
          /\ pc = "exit"
          /\ dbDir = flagDirectories + 1
          /\ failedDir = 0
          /\ ~Cancelled
          /\ err \in {"nil", "write"}
          /\ list # NilList
          /\ list.Plots # <<>>
          /\ Range(list.Plots) = Range(passed)
          /\ NoDuplicateTarget(list.Plots)
    /\ file.kind = "list" => writes = 1 /\ err = "nil" /\ file.data = list
    /\ writes = 0 => file = FileBefore(arg)

C1_Witness ==
    /\ file.kind = "list"
    /\ flagDirectories = 2
    /\ Len(passed) = 3
    /\ Len(file.data.Plots) = 2

\* C2: in both walkers a signal that is buffered when the select of an entry
\* runs stops the walk there: the entry is not parsed, the walker returns no
\* plots and no error, whatever it had gathered; the run ends with status 0 and
\* writes no file.
C2_PendingSignalStopsWalk ==
    /\ [][(pc = "select" /\ interruptCh > 0 /\ pc' # "select") =>
            /\ pc' = "RemoveDuplicate"
            /\ log' = LogCancel
            /\ plots' = <<>>
            /\ info' = NoInfo
            /\ list' # NilList
            /\ list'.Plots = <<>>
            /\ list'.TotalCount = 0
            /\ err' = "nil"]_vars
    /\ [](Cancelled =>
            /\ pc \in {"RemoveDuplicate", "exit"}
            /\ plots = <<>>
            /\ list.Plots = <<>>
            /\ err = "nil"
            /\ writes = 0
            /\ file = FileBefore(arg)
            /\ pc = "exit" => status = 0 /\ stdout = "saved nothing in the binding list")

C2_Witness ==
    /\ Cancelled
    /\ pc = "exit"
    /\ status = 0
    /\ flagPlotType = "m2"
    /\ dbDir = 2
    /\ Len(passed) = 2

\* C3 as claimed, for the runs no fatal scan error ends: whenever the signal
\* trips while directories are walked, the run returns an empty result with no
\* error and writes no file.
C3_Original ==
    (pc = "exit" /\ sigInWalk /\ err \notin {"readdir", "target"}) =>
        /\ list # NilList
        /\ list.Plots = <<>>
        /\ err = "nil"
        /\ writes = 0

\* C3 amended: a signal that trips while directories are walked stops the walk
\* with an empty result, no error and no file if the select of an entry runs
\* after it; if no select runs after it the signal is never seen.
C3_SignalSeenAtNextSelect ==
    (pc = "exit" /\ sigInWalk) =>
        IF polledAfterSig
        THEN /\ Cancelled
             /\ list # NilList
             /\ list.Plots = <<>>
             /\ err = "nil"
             /\ status = 0
             /\ writes = 0
             /\ file = FileBefore(arg)
        ELSE ~Cancelled

C3_Witness ==
    /\ pc = "exit"
    /\ sigInWalk
    /\ polledAfterSig
    /\ flagPlotType = "m1"
    /\ passed # <<>>
    /\ stdout = "saved nothing in the binding list"

\* C4: a header parse failure on a matched file is not fatal: the file gives no
\* plot, nothing else changes and the loop goes to the next entry, as for a
\* file that is not there; a walk that ends without cancellation returns
\* exactly the plots of the files that passed.
C4_ParseFailureSkipsFile ==
    /\ [][(pc = "process" /\ Matched /\ pc' \notin {"process", "extract"}) =>
            /\ plots' = plots
            /\ passed' = passed
            /\ UNCHANGED <<outcome, failedDir>>
            /\ IF dirFileInfos # <<>>
               THEN /\ pc' = "select"
                    /\ fi' = Head(dirFileInfos)
                    /\ dirFileInfos' = Tail(dirFileInfos)
                    /\ UNCHANGED <<dbDir, dirSearched, totalSearched>>
               ELSE /\ pc' = "ReadDir"
                    /\ dbDir' = dbDir + 1
                    /\ totalSearched' = totalSearched + dirSearched]_vars
    /\ []((pc = "RemoveDuplicate" /\ ~Cancelled) => list.Plots = passed)

C4_Witness ==
    /\ log \in {LogFailRead("m1"), LogFailRead("m2")}
    /\ pc = "select"
    /\ status = -1
    /\ plots # <<>>
    /\ plots = passed

\* C5: a binding-target failure on an included file of either format ends the
\* run at that file: the error reaches main as it is, the plots are dropped,
\* no list is built, no file is written and the status is not 0.
C5_TargetFailureIsFatal ==
    /\ [][(\/ ExtractStep("m1") /\ IncludedV1
                /\ TargetErrV1(info.PublicKey, info.BitLength)
           \/ ExtractStep("m2") /\ OwnedV2
                /\ TargetErrV2(info.PlotID, info.K)) =>
            /\ pc' = "exit"
            /\ err' = "target"
            /\ passed' = passed
            /\ UNCHANGED <<dbDir, dirFileInfos, fi>>]_vars
    /\ [](err = "target" =>
            /\ pc = "exit"
            /\ status = 1
            /\ plots = <<>>
            /\ list = NilList
            /\ writes = 0
            /\ file = FileBefore(arg))

C5_Witness ==
    /\ err = "target"
    /\ status = 1
    /\ passed # <<>>
    /\ dirFileInfos # <<>>

\* C6: a listing failure of a directory at any position ends the run with an
\* error: later directories are not listed, the plots of earlier directories
\* are dropped, no file is written and the status is not 0.
C6_ListingFailureIsFatal ==
    failedDir # 0 =>
        /\ pc = "exit"
        /\ err = "readdir"
        /\ status = 1
        /\ dbDir = failedDir
        /\ plots = <<>>
        /\ list = NilList
        /\ writes = 0
        /\ file = FileBefore(arg)

C6_Witness ==
    /\ failedDir = 2
    /\ flagDirectories = 2
    /\ passed # <<>>

\* C7 as claimed: an output path that exists, without --overwrite, ends the
\* run before any directory is listed, with nothing written and a status
\* that is not 0.
C7_Original ==
    (pc = "exit" /\ arg \in {"file", "dir"} /\ ~flagOverwrite) =>
        /\ dbDir = 0
        /\ writes = 0
        /\ file = FileBefore(arg)
        /\ status # 0

\* C8 as claimed: a parsed chia file yields a plot exactly if no keystore is
\* given or the keystore holds its pool and its farmer key.
C8_Original ==
    [][ExtractStep("m2") =>
         (OwnedV2 <=> passed' = Append(passed, PlotV2(info)))]_vars

\* C8 amended: a parsed chia file passes exactly if no keystore is given or the
\* keystore holds its pool and its farmer key, whatever --all is; a file that
\* passes yields one plot of type chia and size k when its binding target can
\* be derived and ends the run with the error when it cannot; a file that does
\* not pass yields nothing and the walk goes on.
C8_OwnershipFilter ==
    [][ExtractStep("m2") =>
         IF ~OwnedV2
         THEN plots' = plots /\ passed' = passed /\ UNCHANGED outcome
         ELSE IF TargetErrV2(info.PlotID, info.K)
         THEN err' = "target" /\ passed' = passed
         ELSE /\ plots' = Append(plots,
                     [Target |-> GetChiaPlotBindingTarget(info.PlotID, info.K),
                      Type |-> ProofTypeChia, Size |-> info.K])
              /\ passed' = Append(passed, plots'[Len(plots')])
              /\ UNCHANGED outcome]_vars

C8_Witness ==
    /\ pc = "extract"
    /\ flagPlotType = "m2"
    /\ flagKeystore = "ks"
    /\ flagListAll
    /\ ~OwnedV2
    /\ Len(passed) = 1
    /\ passed[1].Type = ProofTypeChia

\* C9 as claimed: a parsed native file yields a plot exactly if it is plotted
\* or --all is set.
C9_Original ==
    [][ExtractStep("m1") =>
         (IncludedV1 <=> passed' = Append(passed, PlotV1(info)))]_vars

\* C9 amended: a parsed native file passes exactly if it is plotted or --all is
\* set; a file that passes yields one plot of type default and the header's
\* bit length as size when its binding target can be derived and ends the run
\* with the error when it cannot; a file that does not pass yields nothing, no
\* error, and the walk goes on.
C9_InclusionRule ==
    [][ExtractStep("m1") =>
         IF ~IncludedV1
         THEN plots' = plots /\ passed' = passed /\ UNCHANGED outcome
         ELSE IF TargetErrV1(info.PublicKey, info.BitLength)
         THEN err' = "target" /\ passed' = passed
         ELSE /\ plots' = Append(plots,
                     [Target |-> GetMassDBBindingTarget(info.PublicKey, info.BitLength),
                      Type |-> ProofTypeDefault, Size |-> info.BitLength])
              /\ passed' = Append(passed, plots'[Len(plots')])
              /\ UNCHANGED outcome]_vars

C9_Witness ==
    /\ pc = "extract"
    /\ flagPlotType = "m1"
    /\ ~flagListAll
    /\ ~info.Plotted
    /\ Len(passed) = 1
    /\ passed[1].Type = ProofTypeDefault
    /\ passed[1].Size = 24

\* C10 as claimed: in every list after RemoveDuplicate, TotalCount is the
\* number of plots and DefaultCount + ChiaCount is TotalCount.
C10_Original ==
    (pc = "exit" /\ list # NilList) =>
        /\ list.TotalCount = Len(list.Plots)
        /\ list.DefaultCount + list.ChiaCount = list.TotalCount

\* the positions of s whose target no earlier position has
FirstSeen(s) == {i \in 1..Len(s) : \A j \in 1..(i - 1) : s[j].Target # s[i].Target}
\* the k-th of these positions
NthFirstSeen(s, k) ==
    CHOOSE i \in FirstSeen(s) : Cardinality({j \in FirstSeen(s) : j <= i}) = k

\* C11: the list after RemoveDuplicate holds, for every target of the walker's
\* plots, exactly the first plot with that target, in the order the walker
\* yielded them, and nothing else; RemoveDuplicate leaves such a list as it is.
C11_FirstSeenKept ==
    (pc = "exit" /\ list # NilList) =>
        /\ Len(list.Plots) = Cardinality(FirstSeen(plots))
        /\ \A k \in 1..Len(list.Plots) : list.Plots[k] = plots[NthFirstSeen(plots, k)]
        /\ NoDuplicateTarget(list.Plots)
        /\ {q.Target : q \in Range(list.Plots)} = {q.Target : q \in Range(plots)}
        /\ RemoveDuplicate(list) = list

C11_Witness ==
    /\ pc = "exit"
    /\ list # NilList
    /\ Len(plots) = 3
    /\ plots[1].Target = plots[3].Target
    /\ plots[2].Target # plots[1].Target
    /\ Len(list.Plots) = 2

\* C12: a run that ends with a list of no plots writes no file, prints the
\* "saved nothing" message and ends with status 0; ioutil.WriteFile is called
\* only with a list, without duplicates, of at least one plot.
C12_NothingCollected ==
    /\ (pc = "exit" /\ list # NilList /\ list.Plots = <<>>) =>
          /\ writes = 0
          /\ file = FileBefore(arg)
          /\ stdout = "saved nothing in the binding list"
          /\ err = "nil"
          /\ status = 0
    /\ (writes > 0 \/ file.kind = "list") =>
          /\ list # NilList
          /\ Len(list.Plots) >= 1
          /\ stdout # "saved nothing in the binding list"

C12_Witness ==
    /\ pc = "exit"
    /\ ~Cancelled
    /\ stdout = "saved nothing in the binding list"
    /\ flagDirectories = 2
    /\ dbDir = 3
    /\ list.Plots = <<>>
    /\ passed = <<>>
    /\ writes = 0

\* nothing of the scan has happened: no directory listed, no header parsed,
\* no plot gathered, nothing written
NothingScanned ==
    /\ pc \in {"Action", "getOfflineBindingList", "exit"}
    /\ dbDir = 0
    /\ fi = NoFile
    /\ info = NoInfo
    /\ passed = <<>>
    /\ list = NilList
    /\ writes = 0
    /\ file = FileBefore(arg)

\* C13: a plot type that is neither m1 nor m2 ends the run when
\* getOfflineBindingList looks at it, before any directory is listed or header
\* parsed: the error reaches main, nothing is written and the status is not 0.
C13_InvalidTypeIsFatal ==
    /\ [][(pc = "getOfflineBindingList" /\ flagPlotType \notin {"m1", "m2"}) =>
            /\ pc' = "exit"
            /\ status' # 0
            /\ err' = "invalid --type flag" \/ status' = 2]_vars
    /\ [](flagPlotType \notin {"m1", "m2"} => NothingScanned)
    /\ [](err = "invalid --type flag" =>
            pc = "exit" /\ status = 1 /\ flagPlotType \notin {"m1", "m2"})

C13_Witness ==
    /\ err = "invalid --type flag"
    /\ status = 1
    /\ flagPlotType = ""
    /\ flagDirectories = 2
    /\ arg = "file"
    /\ flagOverwrite
    /\ NothingScanned

\* the names that have a format's shape, in any case of letters: an ordinal,
\* 66 hex characters, a two-digit bit length and the suffix for the native
\* format; the prefix, k, the five date segments, 64 hex characters and the
\* suffix for the chia format
ConformingV1 == {"native", "a_upper", "a_ord3"}
ConformingV2 == {"chia", "b_upper"}
\* the entry at hand has the shape of the format the run is for
Conforms ==
    \/ flagPlotType = "m1" /\ fi \in ConformingV1
    \/ flagPlotType = "m2" /\ fi \in ConformingV2

\* C14: a header is parsed only for an entry whose name has the shape of the
\* run's format; an entry of any other name yields no plot, no parse, no
\* warning and no error, and the loop goes on; for every entry whose name has
\* the shape the parser is called.
C14_ClassifierGates ==
    /\ [][(pc = "process" /\ ~Conforms /\ pc' # "process") =>
            /\ pc' \in {"select", "ReadDir"}
            /\ info' = NoInfo
            /\ plots' = plots
            /\ passed' = passed
            /\ dirSearched' \in {dirSearched, 0}
            /\ log' = LogFailRead(flagPlotType) => log = LogFailRead(flagPlotType)
            /\ UNCHANGED outcome]_vars
    /\ [](info # NoInfo => Conforms)
    /\ []((pc = "process" /\ Conforms) => ENABLED (NextNames /\ pc' = "extract"))

C14_Witness ==
    /\ pc = "extract"
    /\ flagPlotType = "m1"
    /\ fi = "a_ord3"
    /\ dbDir = 2
    /\ totalSearched = 0
    /\ passed = <<>>

\* C15: the signal is looked for once per entry, by the select that runs
\* before the entry's name is tested, and the select never waits; a signal that
\* arrives while an entry is worked on changes nothing but interruptCh, the
\* work on the entry goes on to its end, and the signal is taken by the select
\* of the next entry.
C15_PolledOncePerEntry ==
    /\ [][(pc' = "select" /\ pc # "select") =>
            \/ pc = "ReadDir" /\ <<fi'>> \o dirFileInfos' \in Listings \cup NameListings
            \/ /\ pc \in {"process", "extract"}
               /\ dirFileInfos # <<>>
               /\ fi' = Head(dirFileInfos)
               /\ dirFileInfos' = Tail(dirFileInfos)]_vars
    /\ [][(pc = "select" /\ pc' # "select") =>
            IF interruptCh > 0
            THEN Cancelled' /\ pc' = "RemoveDuplicate" /\ interruptCh' = interruptCh - 1
            ELSE pc' = "process" /\ UNCHANGED <<interruptCh, walk, outcome, log>>]_vars
    /\ [][(pc' = "process" /\ pc # "process") => pc = "select"]_vars
    /\ [][(pc \in {"process", "extract"}) =>
            /\ ~Cancelled'
            /\ interruptCh' # interruptCh =>
                  /\ interruptCh' = interruptCh + 1
                  /\ UNCHANGED <<pc, walk, outcome, log>>
            /\ pc' # pc => pc' \in {"extract", "select", "ReadDir", "exit"}]_vars
    /\ [](pc \in {"select", "process", "extract"} => ENABLED (Steps /\ pc' # pc))

C15_Witness ==
    /\ pc = "extract"
    /\ interruptCh = ChanCap
    /\ info # NoInfo
    /\ sigInWalk
    /\ ~polledAfterSig
    /\ passed # <<>>

\* the number of plots of s whose target an earlier plot of s has
Duplicates(s) == Len(s) - Cardinality({q.Target : q \in Range(s)})

\* C16: getOfflineBindingList counts the walker's plots for the format of the
\* run and 0 for the other format; after RemoveDuplicate TotalCount is the
\* number of plots left, the counts per format are as before, and the count of
\* the run's format is TotalCount plus the number of duplicates removed.
C16_CountsBeforeAndAfter ==
    LET selected == IF flagPlotType = "m1" THEN list.DefaultCount ELSE list.ChiaCount
        other == IF flagPlotType = "m1" THEN list.ChiaCount ELSE list.DefaultCount
    IN /\ (pc = "RemoveDuplicate") =>
             /\ list.Plots = plots
             /\ list.TotalCount = Len(plots)
             /\ selected = Len(plots)
             /\ other = 0
       /\ (pc = "exit" /\ list # NilList) =>
             /\ list.TotalCount = Len(list.Plots)
             /\ selected = Len(plots)
             /\ other = 0
             /\ selected = list.TotalCount + Duplicates(plots)

C16_Witness ==
    /\ pc = "exit"
    /\ flagPlotType = "m2"
    /\ list # NilList
    /\ list.ChiaCount = 4
    /\ list.TotalCount = 2
    /\ list.DefaultCount = 0
    /\ file.kind = "list"

\* C17: directories are walked one after another in the order given and the
\* entries of a directory in the order listed, each once; plots are only
\* appended, the plots of the directory at hand after those of the directories
\* before it; the walker's total, the sum of the directories' counts, is the
\* number of plots a completed walk returns.
C17_SequentialWalk ==
    /\ [][/\ dbDir' \in {dbDir, dbDir + 1}
          /\ dbDir' # dbDir =>
                /\ dbDir < flagDirectories + 1
                /\ pc \in {"getOfflineBindingList", "ReadDir", "process", "extract"}
                /\ pc' = "ReadDir"
                /\ pc # "getOfflineBindingList" => dirFileInfos = <<>>
                /\ totalSearched' = Len(plots')
          /\ dirFileInfos' # dirFileInfos =>
                \/ pc = "ReadDir" /\ pc' = "select"
                \/ /\ dirFileInfos # <<>>
                   /\ fi' = Head(dirFileInfos)
                   /\ dirFileInfos' = Tail(dirFileInfos)
                   /\ dbDir' = dbDir
                \/ dirFileInfos' = <<>> /\ pc' \in {"RemoveDuplicate", "exit"}
          /\ plots' # plots =>
                \/ plots' = <<>> /\ pc' \in {"RemoveDuplicate", "exit"}
                \/ /\ Len(plots') = Len(plots) + 1
                   /\ SubSeq(plots', 1, Len(plots)) = plots
                   /\ pc = "extract"
          /\ failedDir' # failedDir => pc' = "exit"]_vars
    /\ [](pc \in {"select", "process", "extract"} =>
            /\ dbDir \in 1..flagDirectories
            /\ Len(plots) = totalSearched + dirSearched
            /\ plots = passed)
    /\ [](pc = "ReadDir" => Len(plots) = totalSearched /\ dirSearched = 0)
    /\ []((pc \in {"RemoveDuplicate", "exit"} /\ list # NilList /\ ~Cancelled) =>
            /\ dbDir = flagDirectories + 1
            /\ plots = passed
            /\ totalSearched = Len(plots))

C17_Witness ==
    /\ pc = "exit"
    /\ flagPlotType = "m1"
    /\ flagDirectories = 2
    /\ ~Cancelled
    /\ list # NilList
    /\ totalSearched = 3
    /\ Len(plots) = 3
    /\ plots[1].Target # plots[2].Target

\* the run was ended by an error of the scan
FatalScanError == err \in {"invalid --type flag", "keystore", "readdir", "target"}

\* C18: with a file at the output path and --overwrite, a run that ends
\* cancelled, with an error of the scan or with no plot leaves the file as it
\* was; the file is changed only at the end of a completed scan that gave at
\* least one plot.
C18_ExistingFileKept ==
    (arg = "file" /\ flagOverwrite) =>
        /\ (pc = "exit" /\ (\/ Cancelled
                            \/ FatalScanError
                            \/ list # NilList /\ list.Plots = <<>>)) =>
              /\ file = [kind |-> "old"]
              /\ writes = 0
        /\ file # [kind |-> "old"] =>
              /\ pc = "exit"
              /\ writes = 1
              /\ ~Cancelled
              /\ ~FatalScanError
              /\ dbDir = flagDirectories + 1
              /\ list # NilList
              /\ Len(list.Plots) >= 1
        /\ pc # "exit" => file = [kind |-> "old"]

C18_Witness ==
    /\ arg = "file"
    /\ flagOverwrite
    /\ pc = "exit"
    /\ Cancelled
    /\ Len(passed) = 2
    /\ file = [kind |-> "old"]

\* the four ways a run ends
ListWritten ==
    /\ status = 0 /\ ~Cancelled /\ writes = 1
    /\ file.kind = "list" /\ stdout = "collected"
NothingCollected ==
    /\ status = 0 /\ ~Cancelled /\ writes = 0
    /\ list # NilList /\ list.Plots = <<>>
    /\ stdout = "saved nothing in the binding list"
CancelledRun ==
    /\ status = 0 /\ Cancelled /\ writes = 0
    /\ list # NilList /\ list.Plots = <<>>
    /\ stdout = "saved nothing in the binding list"
FatalError == status \notin {-1, 0} /\ file.kind # "list"
Outcomes ==
    Cardinality({o \in {"written", "nothing", "cancelled", "fatal"} :
        \/ o = "written" /\ ListWritten
        \/ o = "nothing" /\ NothingCollected
        \/ o = "cancelled" /\ CancelledRun
        \/ o = "fatal" /\ FatalError})

\* C19: every run ends, whenever signals arrive; a run that has come to
\* getOfflineBindingList ends in exactly one of: list written, nothing
\* collected, cancelled, fatal error; a step of the program is possible in
\* every state before the end, whether or not a signal is buffered.
C19_RunEnds ==
    /\ <>(pc = "exit")
    /\ [][(pc \notin {"Action", "exit"} /\ pc' = "exit") => Outcomes' = 1]_vars
    /\ [](pc # "exit" => ENABLED <<ReadDir \/ ProgramSteps>>_vars)
    /\ [](pc # "exit" => status = -1)

C19_Witness ==
    /\ pc = "exit"
    /\ ListWritten
    /\ interruptCh = ChanCap
    /\ sigInWalk
    /\ flagDirectories = 2
    /\ Len(passed) = 4

\* C20: in a chia run with --keystore, a keystore that does not load ends the
\* run when getOfflineBindingListV2 starts, before any directory is listed:
\* the error reaches main, nothing is written, the status is not 0, and no
\* file is ever tested against a missing keystore.
C20_KeystoreFailureIsFatal ==
    /\ [][(pc = "getOfflineBindingList" /\ flagPlotType = "m2" /\ flagKeystore = "bad") =>
            /\ pc' = "exit"
            /\ status' # 0
            /\ err' = "keystore" \/ status' = 2]_vars
    /\ []((flagPlotType = "m2" /\ flagKeystore = "bad") => NothingScanned)
    /\ [](err = "keystore" =>
            /\ pc = "exit" /\ status = 1
            /\ flagPlotType = "m2" /\ flagKeystore = "bad")
    /\ []((flagPlotType = "m2" /\ pc \in {"ReadDir", "select", "process", "extract"}) =>
            (keystore = NilKeystore <=> flagKeystore = ""))

C20_Witness ==
    /\ err = "keystore"
    /\ status = 1
    /\ flagKeystore = "bad"
    /\ flagListAll
    /\ flagDirectories = 2
    /\ NothingScanned

====
